---- MODULE Spec2Model ----
(***************************************************************************)
(* State-machine model of src/server.py: the connection registry           *)
(* (TranslationServer.clients), the per-connection handler coroutine       *)
(* (handle_client / process_message) and the broadcast loops.              *)
(*                                                                         *)
(* One asyncio event loop runs every handler.  A handler runs without      *)
(* interruption between two awaits that really suspend; the only such      *)
(* points are the wait for the next inbound message (line 257), a send to  *)
(* a broadcast recipient (lines 389, 399) and the acknowledgement send     *)
(* (line 363).  Each action below is one such uninterrupted stretch.       *)
(* Translation (lines 306, 335) is a synchronous call: it never yields, so *)
(* while a translator call runs (pc = "translate") the event loop runs no  *)
(* other handler; the call is a state of its own because it takes time.    *)
(*                                                                         *)
(* Texts are modelled as tuples of strings so that a text, a translation   *)
(* of it, the "not supported" sentinel and the error text are all          *)
(* comparable and pairwise different.  Timestamps are left out.            *)
(***************************************************************************)
EXTENDS Integers, Sequences, FiniteSets, TLC

\* ------------------------------------------------------------- bounds
\* Number of websocket connections ever accepted.  Every accepted connection
\* is a fresh key of self.clients.  A CPython dict resizes (and compacts its
\* entry array) only at its 6th insertion, so with up to 5 connections the
\* entry array below never compacts.
MaxConns == 3
\* Number of inbound bodies the server reads, over all connections.
MaxMsgs == 4
\* The same two bounds for the specification that draws its inbound bodies
\* from the larger set Bodies (SpecLang below).
LangConns == 2
LangMsgs == 3
\* The same two bounds for the specification in which bodies arrive in a
\* connection's inbound queue before they are read (SpecQueue below).
QueueConns == 2
QueueMsgs == 4
\* The same two bounds for the specification with fair scheduling of the
\* handlers (SpecLive below).
LiveConns == 2
LiveMsgs == 3

\* Connections are numbered in the order in which they are accepted.
Conns == 1..MaxConns

\* ------------------------------------------------------------- values
\* Python's None (register_client stores it as session_id).
None == "<None>"
\* A key that the JSON object does not carry.
Missing == "<missing>"

\* TRANSLATION_MODELS.keys(), copied into OfflineTranslator.supported_languages
TRANSLATION_MODELS == {"es", "fr", "de", "it", "pt"}
supported_languages == TRANSLATION_MODELS

RoleInputs == {Missing, "assistant", "other"}
SessionInputs == {Missing, "S"}
LangInputs == {Missing, "en", "xx"}
Texts == {<<"Hola">>, <<"Hi">>}
\* data.get("text", "") of an envelope without text
NoText == <<>>
\* What load_model and the model-inference call do: the model loads and
\* returns a translation ("ok"), the model cannot be loaded and load_model
\* falls back to its MockTranslator ("unavailable"), or the call raises.
TranslatorOutcomes == {"ok", "unavailable", "raise"}

\* Get without the default
GetNoDefault(data, key, default) == data[key]

\* dict.get(key, default) on a decoded JSON object
Get(data, key, default) == IF data[key] = Missing THEN default ELSE data[key]

Envelope(type, role, session_id, language, text, traveler_language) ==
    [type |-> type, role |-> role, session_id |-> session_id,
     language |-> language, text |-> text,
     traveler_language |-> traveler_language]

SetRoleEnvelopes ==
    {Envelope("set_role", r, s, l, NoText, Missing) :
        r \in RoleInputs, s \in SessionInputs, l \in LangInputs}
TranscriptionEnvelopes ==
    {Envelope("transcription", Missing, Missing, Missing, t, tl) :
        t \in Texts, tl \in LangInputs}
StartRecordingEnvelopes ==
    {Envelope("start_recording", Missing, Missing, l, NoText, Missing) :
        l \in LangInputs}
OtherEnvelopes ==
    {Envelope(ty, Missing, Missing, Missing, NoText, Missing) :
        ty \in {"stop_recording", "ping"}}
\* A body that json.loads rejects.
Malformed == Envelope("<not json>", Missing, Missing, Missing, NoText, Missing)

Bodies == SetRoleEnvelopes \cup TranscriptionEnvelopes
            \cup StartRecordingEnvelopes \cup OtherEnvelopes \cup {Malformed}

\* The bodies that decide who is routed to whom: set_role without language
\* and one transcription.
RoutingBodies ==
    {Envelope("set_role", r, s, Missing, NoText, Missing) :
        r \in {Missing, "assistant"}, s \in SessionInputs}
    \cup {Envelope("transcription", Missing, Missing, Missing, <<"Hola">>, Missing)}

\* The bodies that arrive in SpecQueue: set_role with and without a role
\* and a language, and one transcription.
QueueBodies ==
    {Envelope("set_role", r, "S", l, NoText, Missing) :
        r \in {Missing, "assistant"}, l \in {Missing, "xx"}}
    \cup {Envelope("transcription", Missing, Missing, Missing, <<"Hola">>, Missing)}

\* ------------------------------------------------------------- translation
\* f"Language '{lang}' not supported offline. Supported: [...]"
NotSupported(lang) == <<"not supported", lang>>
\* f"Translation error: {e}"
TranslationError == <<"Translation error">>
\* the text the model returns: never the input text itself
ModelOutput(direction, lang, text) == <<direction, lang>> \o text

\* f"[MOCK TRANSLATION] {text}", what the MockTranslator of load_model returns
MockOutput(text) == <<"[MOCK TRANSLATION]">> \o text

\* OfflineTranslator.translate_to_english
translate_to_english(text, source_language, outcome) ==
    IF source_language \notin TRANSLATION_MODELS THEN TranslationError
    ELSE IF outcome = "raise" THEN TranslationError
    ELSE IF outcome = "unavailable" THEN MockOutput(text)
    ELSE ModelOutput("to_en", source_language, text)

\* OfflineTranslator.translate_from_english
translate_from_english(text, target_language, outcome) ==
    IF target_language \notin TRANSLATION_MODELS THEN TranslationError
    ELSE IF outcome = "raise" THEN TranslationError
    ELSE IF outcome = "unavailable" THEN MockOutput(text)
    ELSE ModelOutput("from_en", target_language, text)

\* TranslationServer.translate_traveler_to_assistant; invoked tells whether the
\* OfflineTranslator was called
translate_traveler_to_assistant(text, traveler_language, outcome) ==
    IF traveler_language \notin supported_languages
    THEN [value |-> NotSupported(traveler_language), invoked |-> FALSE]
    ELSE IF traveler_language = "en"
    THEN [value |-> text, invoked |-> FALSE]
    ELSE [value |-> translate_to_english(text, traveler_language, outcome),
          invoked |-> TRUE]

\* TranslationServer.translate_assistant_to_traveler
translate_assistant_to_traveler(text, traveler_language, outcome) ==
    IF traveler_language \notin supported_languages
    THEN [value |-> NotSupported(traveler_language), invoked |-> FALSE]
    ELSE IF traveler_language = "en"
    THEN [value |-> text, invoked |-> FALSE]
    ELSE [value |-> translate_from_english(text, traveler_language, outcome),
          invoked |-> TRUE]

\* ------------------------------------------------------------- state
VARIABLES
    clients,     \* self.clients: registered websocket -> its info dict
    order,       \* the dict's entry array: keys in insertion order, 0 = deleted
    transport,   \* per connection: "none", "open" or "closed"
    pc,          \* per connection: where its handle_client coroutine stands
    job,         \* per connection: the locals of its running process_message
    nmsgs,       \* inbound bodies read so far, over all connections
    hasSetRole,  \* per connection: a set_role envelope has been processed
    left,        \* per connection: the info dict unregister_client deleted
    arrived,     \* per connection: the bodies put in its inbound queue, in
                 \* order of arrival, read ones included
    nread        \* per connection: how many of them the message loop has read

vars == <<clients, order, transport, pc, job, nmsgs, hasSetRole, left,
          arrived, nread>>
\* the inbound queues
inbound == <<arrived, nread>>

\* the info dict register_client stores
DefaultInfo == [language |-> "es", translation_enabled |-> TRUE,
                role |-> "traveler", session_id |-> None]
\* the value of clients at a websocket that is not a key of self.clients
NotIn == [absent |-> TRUE]
\* the keys of self.clients
Registered == {c \in Conns : clients[c] # NotIn}

NoIter == [pos |-> 0, used |-> 0, len |-> 0]
NoEnv == [type |-> Missing]

\* locals of process_message while no envelope is being processed
NoJob == [data |-> NoEnv, role |-> Missing, language |-> Missing,
          session_id |-> Missing, traveler_language |-> Missing,
          translated |-> <<>>, invoked |-> FALSE, outcome |-> "none",
          target_role |-> Missing,
          message |-> NoEnv, response |-> NoEnv, it |-> NoIter, target |-> 0,
          log |-> <<>>, error |-> "none",
          matched |-> {}, stable |-> {}, gone |-> {}, disturbed |-> FALSE]

Init ==
    /\ clients = [c \in Conns |-> NotIn]
    /\ order = <<>>
    /\ transport = [c \in Conns |-> "none"]
    /\ pc = [c \in Conns |-> "init"]
    /\ job = [c \in Conns |-> NoJob]
    /\ nmsgs = 0
    /\ hasSetRole = [c \in Conns |-> FALSE]
    /\ left = [c \in Conns |-> NotIn]
    /\ arrived = [c \in Conns |-> <<>>]
    /\ nread = [c \in Conns |-> 0]

\* ------------------------------------------------------------- broadcast
\* Matches without the comparison of the role
MatchesAnyRole(info, target_role, session_id) ==
    info.session_id = session_id

\* Matches without the comparison of the session
MatchesAnySession(info, target_role, session_id) ==
    info.role = target_role

\* the test of broadcast_to_assistants / broadcast_to_travelers on one entry
Matches(info, target_role, session_id) ==
    info.role = target_role /\ info.session_id = session_id

\* the entries that pass the test when the broadcast starts
Recipients(target_role, session_id) ==
    {r \in Registered : Matches(clients[r], target_role, session_id)}

\* iter(self.clients.items()): CPython's dict iterator remembers the dict's
\* size (used), the number of items still to yield (len) and its position
NewIter == [pos |-> 1, used |-> Cardinality(Registered),
            len |-> Cardinality(Registered)]

\* next() of the dict iterator: RuntimeError when the dict changed size or
\* when more keys turn up than the dict had; deleted entries are skipped
DictIterNext(it) ==
    IF it.used # Cardinality(Registered)
    THEN [kind |-> "RuntimeError", key |-> 0, it |-> it]
    ELSE LET live == {i \in it.pos..Len(order) : order[i] # 0} IN
         IF live = {}
         THEN [kind |-> "StopIteration", key |-> 0, it |-> it]
         ELSE IF it.len = 0
         THEN [kind |-> "RuntimeError", key |-> 0, it |-> it]
         ELSE LET i == CHOOSE k \in live : \A m \in live : k <= m IN
              [kind |-> "item", key |-> order[i],
               it |-> [pos |-> i + 1, used |-> it.used, len |-> it.len - 1]]

\* the for loop of broadcast_to_*: run to the next entry that passes the test
RECURSIVE ScanFrom(_, _, _)
ScanFrom(it, target_role, session_id) ==
    LET n == DictIterNext(it) IN
    IF n.kind # "item" THEN n
    ELSE IF Matches(clients[n.key], target_role, session_id) THEN n
    ELSE ScanFrom(n.it, target_role, session_id)

\* Response with the original text in place of the translation
ResponseUntranslated(j) ==
    IF j.role = "traveler"
    THEN [type |-> "transcription_sent", original |-> j.data.text,
          translated_for_assistant |-> j.data.text]
    ELSE [type |-> "response_sent", original |-> j.data.text,
          translated_for_traveler |-> j.data.text]

\* the acknowledgement process_message builds after the broadcast returned
Response(j) ==
    IF j.role = "traveler"
    THEN [type |-> "transcription_sent", original |-> j.data.text,
          translated_for_assistant |-> j.translated]
    ELSE [type |-> "response_sent", original |-> j.data.text,
          translated_for_traveler |-> j.translated]

\* Advance with the RuntimeError of the loop ending the handler instead of
\* being logged inside its message loop
AdvanceErrorEndsHandler(j) ==
    LET n == ScanFrom(j.it, j.target_role, j.session_id) IN
    IF n.kind = "item"
    THEN [pc |-> "send", job |-> [j EXCEPT !.it = n.it, !.target = n.key]]
    ELSE IF n.kind = "StopIteration"
    THEN [pc |-> "ack",
          job |-> [j EXCEPT !.it = n.it, !.target = 0, !.response = Response(j)]]
    ELSE [pc |-> "done",
          job |-> [j EXCEPT !.it = n.it, !.target = 0, !.error = "RuntimeError"]]

\* process_message from the broadcast loop on, up to its next suspension:
\* the send to the next recipient, the acknowledgement send once the loop is
\* exhausted, or the RuntimeError of the loop, which leaves process_message
\* and is logged by handle_client (line 266)
Advance(j) ==
    LET n == ScanFrom(j.it, j.target_role, j.session_id) IN
    IF n.kind = "item"
    THEN [pc |-> "send", job |-> [j EXCEPT !.it = n.it, !.target = n.key]]
    ELSE IF n.kind = "StopIteration"
    THEN [pc |-> "ack",
          job |-> [j EXCEPT !.it = n.it, !.target = 0, !.response = Response(j)]]
    ELSE [pc |-> "ret",
          job |-> [j EXCEPT !.it = n.it, !.target = 0, !.error = "RuntimeError"]]

\* The event loop is free: no handler is inside a translator call, which is
\* made without await (lines 306, 335) and so keeps the loop's only thread.
Idle == \A x \in Conns : pc[x] # "translate"

\* ------------------------------------------------------------- history
\* What is noted about the envelope connection x is processing (or has just
\* processed) when the handler of connection c changes the registry: the
\* change itself, and whether c still is a recipient that has matched ever
\* since the broadcast started.
Touch(x, c, stays) ==
    IF pc[x] \in {"send", "ack", "ret"}
    THEN [job[x] EXCEPT !.disturbed = TRUE,
                        !.stable = IF stays THEN @ ELSE @ \ {c}]
    ELSE job[x]

\* ------------------------------------------------------------- actions
\* handle_client up to its first wait for a message: register_client
Connect(c) ==
    /\ Idle
    /\ pc[c] = "init"
    /\ \A x \in 1..(c - 1) : pc[x] # "init"
    /\ clients' = [clients EXCEPT ![c] = DefaultInfo]
    /\ order' = Append(order, c)
    /\ transport' = [transport EXCEPT ![c] = "open"]
    /\ pc' = [pc EXCEPT ![c] = "recv"]
    /\ job' = [x \in Conns |-> IF x = c THEN job[x] ELSE Touch(x, c, TRUE)]
    /\ UNCHANGED <<nmsgs, hasSetRole, left, inbound>>

\* Close deleting the registry entry at once, while the handler may still be
\* processing an envelope
CloseDeletesEntry(c) ==
    /\ transport[c] = "open"
    /\ transport' = [transport EXCEPT ![c] = "closed"]
    /\ clients' = [clients EXCEPT ![c] = NotIn]
    /\ order' = [i \in 1..Len(order) |-> IF order[i] = c THEN 0 ELSE order[i]]
    /\ UNCHANGED <<pc, job, nmsgs, hasSetRole, left, inbound>>

\* the peer or the network closes the connection
Close(c) ==
    /\ transport[c] = "open"
    /\ transport' = [transport EXCEPT ![c] = "closed"]
    /\ UNCHANGED <<clients, order, pc, job, nmsgs, hasSetRole, left, inbound>>

\* Unregister without the del of unregister_client
UnregisterKeepsEntry(c) ==
    /\ Idle
    /\ pc[c] = "recv"
    /\ transport[c] = "closed"
    /\ pc' = [pc EXCEPT ![c] = "done"]
    /\ left' = [left EXCEPT ![c] = clients[c]]
    /\ UNCHANGED <<clients, order, job, transport, nmsgs, hasSetRole, inbound>>

\* handle_client: the message loop ends on a closed connection and the
\* finally clause runs unregister_client
Unregister(c) ==
    /\ Idle
    /\ pc[c] = "recv"
    /\ transport[c] = "closed"
    /\ clients' = [clients EXCEPT ![c] = NotIn]
    /\ order' = IF c \in Registered
                THEN [i \in 1..Len(order) |-> IF order[i] = c THEN 0 ELSE order[i]]
                ELSE order
    /\ pc' = [pc EXCEPT ![c] = "done"]
    /\ job' = [x \in Conns |-> IF x = c THEN job[x] ELSE Touch(x, c, FALSE)]
    /\ left' = [left EXCEPT ![c] = clients[c]]
    /\ UNCHANGED <<transport, nmsgs, hasSetRole, inbound>>

\* SetRole giving up the event loop after the write of the role: the session
\* and the language are not written yet when other handlers run
SetRoleRoleFirst(c, data) ==
    LET info == IF c \in Registered
                THEN [clients[c] EXCEPT !.role = Get(data, "role", "traveler")]
                ELSE clients[c]
    IN /\ clients' = [clients EXCEPT ![c] = info]
       /\ job' = [job EXCEPT ![c] = [NoJob EXCEPT !.data = data]]
       /\ pc' = [pc EXCEPT ![c] = "ret"]
       /\ hasSetRole' = [hasSetRole EXCEPT ![c] = TRUE]
       /\ UNCHANGED order

\* process_message, branch set_role
SetRole(c, data) ==
    LET role == Get(data, "role", "traveler")
        session_id == Get(data, "session_id", "default")
        info == IF c \in Registered
                THEN [clients[c] EXCEPT !.role = role,
                                        !.session_id = session_id,
                                        !.language = Get(data, "language", "es")]
                ELSE clients[c]
    IN /\ clients' = [clients EXCEPT ![c] = info]
       /\ job' = [x \in Conns |->
                    IF x = c THEN [NoJob EXCEPT !.data = data]
                    ELSE Touch(x, c, /\ c \in Registered
                                     /\ Matches(info, job[x].target_role,
                                                job[x].session_id))]
       /\ pc' = [pc EXCEPT ![c] = "ret"]
       /\ hasSetRole' = [hasSetRole EXCEPT ![c] = TRUE]
       /\ UNCHANGED order

\* StartRecording writing the entry the way set_role does
StartRecordingAsSetRole(c, data) == SetRole(c, data)

\* process_message, branch start_recording
StartRecording(c, data) ==
    /\ clients' = [clients EXCEPT ![c] =
                     IF c \in Registered
                     THEN [@ EXCEPT !.language = Get(data, "language", "es")]
                     ELSE @]
    /\ job' = [job EXCEPT ![c] = [NoJob EXCEPT !.data = data]]
    /\ pc' = [pc EXCEPT ![c] = "ret"]
    /\ UNCHANGED <<order, hasSetRole>>

\* NoEffect writing the language the way start_recording does
NoEffectAsStartRecording(c, data) == StartRecording(c, data)

\* process_message, branches stop_recording and unknown type; and the
\* JSONDecodeError handler of handle_client for a body that is not JSON
NoEffect(c, data) ==
    /\ job' = [job EXCEPT ![c] =
                 [NoJob EXCEPT !.data = data,
                               !.error = IF data = Malformed
                                         THEN "JSONDecodeError" ELSE "none"]]
    /\ pc' = [pc EXCEPT ![c] = "ret"]
    /\ UNCHANGED <<clients, order, hasSetRole>>

\* TravelerLanguage reading the sender's stored language instead
TravelerLanguageStored(data, client_info) == client_info.language

\* process_message, line 334: the language an assistant's text is translated to
TravelerLanguage(data, client_info) == Get(data, "traveler_language", "es")

\* the language the transcription is translated from (traveler) or to
\* (assistant)
TranslationLanguage(j) ==
    IF j.role = "traveler" THEN j.language ELSE j.traveler_language

\* lines 306 / 335: the translate_* call of the sender's role
Translate(j, outcome) ==
    IF j.role = "traveler"
    THEN translate_traveler_to_assistant(j.data.text, j.language, outcome)
    ELSE translate_assistant_to_traveler(j.data.text, j.traveler_language, outcome)

\* process_message, branch transcription, from the return of translate_* to
\* the next suspension: the envelope is built and the broadcast starts
Route(c, j, t, outcome) ==
    LET target_role == IF j.role = "traveler" THEN "assistant" ELSE "traveler"
        message == [type |-> IF j.role = "traveler" THEN "traveler_message"
                             ELSE "assistant_response",
                    original |-> j.data.text,
                    translated |-> t.value,
                    traveler_language |-> TranslationLanguage(j)]
        started == [j EXCEPT !.translated = t.value, !.invoked = t.invoked,
                        !.outcome = IF t.invoked THEN outcome ELSE "none",
                        !.target_role = target_role, !.message = message,
                        !.it = NewIter,
                        !.matched = Recipients(target_role, j.session_id),
                        !.stable = Recipients(target_role, j.session_id),
                        !.gone = {x \in Conns :
                                    /\ left[x] # NotIn
                                    /\ Matches(left[x], target_role, j.session_id)}]
    IN \E jb \in {started} :
         \E next \in {Advance(jb)} :
            /\ job' = [job EXCEPT ![c] = next.job]
            /\ pc' = [pc EXCEPT ![c] = next.pc]

\* Transcription with a plain else in place of the test of the assistant
\* role: every sender that is no traveler is treated as an assistant
TranscriptionElseAssistant(c, data) ==
    LET role == IF c \in Registered THEN clients[c].role ELSE "traveler"
        language == IF c \in Registered THEN clients[c].language ELSE "es"
        session_id == IF c \in Registered THEN clients[c].session_id ELSE "default"
        j == [NoJob EXCEPT !.data = data, !.role = role, !.language = language,
                           !.session_id = session_id,
                           !.traveler_language =
                               IF role = "traveler" THEN Missing
                               ELSE TravelerLanguage(data, clients[c])]
    IN /\ IF Translate(j, "ok").invoked
          THEN /\ job' = [job EXCEPT ![c] = j]
               /\ pc' = [pc EXCEPT ![c] = "translate"]
          ELSE Route(c, j, Translate(j, "ok"), "none")
       /\ UNCHANGED <<clients, order, hasSetRole>>

\* process_message, branch transcription, up to the translator call or, when
\* the translator is not called, up to the first suspension
Transcription(c, data) ==
    LET role == IF c \in Registered THEN clients[c].role ELSE "traveler"
        language == IF c \in Registered THEN clients[c].language ELSE "es"
        session_id == IF c \in Registered THEN clients[c].session_id ELSE "default"
        j == [NoJob EXCEPT !.data = data, !.role = role, !.language = language,
                           !.session_id = session_id,
                           !.traveler_language =
                               IF role = "traveler" THEN Missing
                               ELSE TravelerLanguage(data, clients[c])]
    IN /\ IF role \notin {"traveler", "assistant"}
          THEN \* neither branch binds response: the UnboundLocalError of
               \* line 363 is caught and logged at line 366
               /\ job' = [job EXCEPT ![c] = [j EXCEPT !.error = "UnboundLocalError"]]
               /\ pc' = [pc EXCEPT ![c] = "ret"]
          ELSE IF Translate(j, "ok").invoked
          THEN /\ job' = [job EXCEPT ![c] = j]
               /\ pc' = [pc EXCEPT ![c] = "translate"]
          ELSE Route(c, j, Translate(j, "ok"), "none")
       /\ UNCHANGED <<clients, order, hasSetRole>>

\* the translator call of load_model / translator(text, max_length=512)
\* returns or raises, and process_message runs on to its next suspension
TranslatorReturns(c, outcome) ==
    /\ pc[c] = "translate"
    /\ \E t \in {Translate(job[c], outcome)} : Route(c, job[c], t, outcome)
    /\ UNCHANGED <<clients, order, transport, nmsgs, hasSetRole, left, inbound>>

\* handle_client, lines 258-266: one body is decoded and processed, up to the
\* first suspension of its processing
Process(c, body) ==
    IF body = Malformed THEN NoEffect(c, body)
    ELSE IF body.type = "set_role" THEN SetRole(c, body)
    ELSE IF body.type = "transcription" THEN Transcription(c, body)
    ELSE IF body.type = "start_recording" THEN StartRecording(c, body)
    ELSE NoEffect(c, body)

\* handle_client: one pass of the message loop for a body that arrives while
\* the handler waits with an empty inbound queue: it is read at once
Receive(c, body, max) ==
    /\ Idle
    /\ pc[c] = "recv"
    /\ transport[c] = "open"
    /\ nread[c] = Len(arrived[c])
    /\ nmsgs < max
    /\ nmsgs' = nmsgs + 1
    /\ UNCHANGED <<transport, left, inbound>>
    /\ Process(c, body)

\* a body sent by the peer arrives and is put in the connection's inbound
\* queue, whatever its handler is doing
Arrive(c, body, max) ==
    /\ transport[c] = "open"
    /\ nmsgs < max
    /\ nmsgs' = nmsgs + 1
    /\ arrived' = [arrived EXCEPT ![c] = Append(@, body)]
    /\ UNCHANGED <<clients, order, transport, pc, job, hasSetRole, left, nread>>

\* Deliver yielding the newest body of the inbound queue
DeliverNewest(c) ==
    /\ Idle
    /\ pc[c] = "recv"
    /\ nread[c] < Len(arrived[c])
    /\ nread' = [nread EXCEPT ![c] = @ + 1]
    /\ UNCHANGED <<transport, left, nmsgs, arrived>>
    /\ Process(c, arrived[c][Len(arrived[c])])

\* handle_client: one pass of the message loop, async for yielding the oldest
\* body of the inbound queue; bodies that arrived before the connection
\* closed may still be yielded, or be dropped (Unregister)
Deliver(c) ==
    /\ Idle
    /\ pc[c] = "recv"
    /\ nread[c] < Len(arrived[c])
    /\ nread' = [nread EXCEPT ![c] = @ + 1]
    /\ UNCHANGED <<transport, left, nmsgs, arrived>>
    /\ Process(c, arrived[c][nread[c] + 1])

\* broadcast_to_*: the send to one recipient ends (it fails on a closed
\* connection, and the failure is logged), and the loop goes on
SendComplete(c) ==
    /\ Idle
    /\ pc[c] = "send"
    /\ LET j == job[c]
           sent == [to |-> j.target, env |-> j.message,
                    ok |-> transport[j.target] = "open"]
           next == Advance([j EXCEPT !.log = Append(@, sent)])
       IN /\ job' = [job EXCEPT ![c] = next.job]
          /\ pc' = [pc EXCEPT ![c] = next.pc]
    /\ UNCHANGED <<clients, order, transport, nmsgs, hasSetRole, left, inbound>>

\* process_message: the acknowledgement send ends (a failure is logged)
AckComplete(c) ==
    /\ Idle
    /\ pc[c] = "ack"
    /\ LET j == job[c]
           sent == [to |-> c, env |-> j.response, ok |-> transport[c] = "open"]
       IN job' = [job EXCEPT ![c] = [j EXCEPT !.log = Append(@, sent)]]
    /\ pc' = [pc EXCEPT ![c] = "ret"]
    /\ UNCHANGED <<clients, order, transport, nmsgs, hasSetRole, left, inbound>>

\* Loop with the JSONDecodeError leaving the message loop: the handler ends
\* and its finally clause unregisters the connection
LoopEndsOnDecodeError(c) ==
    LET ends == job[c].error = "JSONDecodeError" IN
    /\ Idle
    /\ pc[c] = "ret"
    /\ pc' = [pc EXCEPT ![c] = IF ends THEN "done" ELSE "recv"]
    /\ clients' = [clients EXCEPT ![c] = IF ends THEN NotIn ELSE @]
    /\ order' = [i \in 1..Len(order) |->
                   IF ends /\ order[i] = c THEN 0 ELSE order[i]]
    /\ job' = [job EXCEPT ![c] = NoJob]
    /\ UNCHANGED <<transport, nmsgs, hasSetRole, left, inbound>>

\* handle_client: process_message returned or its exception was logged; the
\* loop waits for the next message
Loop(c) ==
    /\ Idle
    /\ pc[c] = "ret"
    /\ pc' = [pc EXCEPT ![c] = "recv"]
    /\ job' = [job EXCEPT ![c] = NoJob]
    /\ UNCHANGED <<clients, order, transport, nmsgs, hasSetRole, left, inbound>>

Next ==
    \E c \in Conns :
        \/ Connect(c)
        \/ Close(c)
        \/ Unregister(c)
        \/ \E body \in RoutingBodies : Receive(c, body, MaxMsgs)
        \/ TranslatorReturns(c, "ok")
        \/ SendComplete(c)
        \/ AckComplete(c)
        \/ Loop(c)

Spec == Init /\ [][Next]_vars

\* The same handlers, fewer connections, every kind of inbound body.
NextLang ==
    \E c \in 1..LangConns :
        \/ Connect(c)
        \/ Close(c)
        \/ Unregister(c)
        \/ \E body \in Bodies : Receive(c, body, LangMsgs)
        \/ \E outcome \in TranslatorOutcomes : TranslatorReturns(c, outcome)
        \/ SendComplete(c)
        \/ AckComplete(c)
        \/ Loop(c)

SpecLang == Init /\ [][NextLang]_vars

\* The same handlers, with the bodies queued between arrival and reading.
NextQueue ==
    \E c \in 1..QueueConns :
        \/ Connect(c)
        \/ Close(c)
        \/ Unregister(c)
        \/ \E body \in QueueBodies : Arrive(c, body, QueueMsgs)
        \/ Deliver(c)
        \/ TranslatorReturns(c, "ok")
        \/ SendComplete(c)
        \/ AckComplete(c)
        \/ Loop(c)

SpecQueue == Init /\ [][NextQueue]_vars

\* The handlers of Spec under the scheduling of the event loop.
NextLive ==
    \E c \in 1..LiveConns :
        \/ Connect(c)
        \/ Close(c)
        \/ Unregister(c)
        \/ \E body \in RoutingBodies : Receive(c, body, LiveMsgs)
        \/ TranslatorReturns(c, "ok")
        \/ SendComplete(c)
        \/ AckComplete(c)
        \/ Loop(c)

\* the steps the handler of connection c takes by itself: the event loop
\* runs every handler that is ready, a translator call returns, and a send
\* ends, with or without an error
HandlerStep(c) ==
    \/ Unregister(c)
    \/ TranslatorReturns(c, "ok")
    \/ SendComplete(c)
    \/ AckComplete(c)
    \/ Loop(c)

SpecLive ==
    /\ Init
    /\ [][NextLive]_vars
    /\ \A c \in 1..LiveConns : WF_vars(HandlerStep(c))

\* ------------------------------------------------------------- claims
\* the envelope connection c is processing, or has just processed, is a
\* transcription routed as a traveler's or an assistant's
Routing(c) ==
    /\ pc[c] \in {"send", "ack", "ret"}
    /\ job[c].data.type = "transcription"
    /\ job[c].role \in {"traveler", "assistant"}
\* process_message has ended for that transcription
Finished(c) == Routing(c) /\ pc[c] = "ret"

BroadcastTypes == {"traveler_message", "assistant_response"}
AckTypes == {"transcription_sent", "response_sent"}
\* the sends of job j to r that went through, by the type of the envelope
Delivered(j, r, types) ==
    {i \in 1..Len(j.log) :
        j.log[i].to = r /\ j.log[i].ok /\ j.log[i].env.type \in types}
\* the acknowledgement sends of job j, attempted
Acks(j) == {i \in 1..Len(j.log) : j.log[i].env.type \in AckTypes}

\* C1's configuration: traveler t has processed a transcription while the
\* registry held, unchanged by any other handler, just t and one assistant a
\* of t's session, and both connections are open
C1_Case(t, a) ==
    /\ Finished(t)
    /\ job[t].role = "traveler"
    /\ ~job[t].disturbed
    /\ Registered = {t, a}
    /\ clients[t].role = "traveler"
    /\ clients[a].role = "assistant"
    /\ clients[a].session_id = clients[t].session_id
    /\ transport[t] = "open"
    /\ transport[a] = "open"

\* C1: with one traveler and one assistant registered in the same session, a
\* transcription of the traveler is delivered once to the assistant as a
\* traveler_message and acknowledged once to the traveler with
\* transcription_sent, whose translated_for_assistant equals the translated
\* value of the broadcast; nothing else is sent.
C1_Exchange ==
    \A t \in Conns, a \in Conns :
        C1_Case(t, a) =>
            LET j == job[t] IN
            /\ Len(j.log) = 2
            /\ Cardinality(Delivered(j, a, {"traveler_message"})) = 1
            /\ Cardinality(Delivered(j, t, {"transcription_sent"})) = 1
            /\ \A i \in Delivered(j, a, {"traveler_message"}),
                  k \in Delivered(j, t, {"transcription_sent"}) :
                  /\ j.log[k].env.translated_for_assistant = j.log[i].env.translated
                  /\ j.log[i].env.translated = j.translated

C1_Witness ==
    \E t \in Conns, a \in Conns :
        /\ C1_Case(t, a)
        /\ job[t].invoked
        /\ Len(job[t].log) = 2

\* a send to a broadcast recipient starts in this step
SendStarts(c) ==
    /\ pc'[c] = "send"
    /\ pc[c] # "send" \/ job'[c].it # job[c].it

\* C2: whenever a broadcast send starts, its recipient is registered at that
\* moment with the session of the (registered) sender and with the role
\* opposite to the sender's: assistant for a traveler_message, traveler for
\* an assistant_response.
C2_OnlyMatchingRecipients ==
    [][\A c \in Conns :
          SendStarts(c) =>
             LET r == job'[c].target IN
             /\ r \in Conns /\ r # c
             /\ clients'[c] # NotIn /\ clients'[r] # NotIn
             /\ clients'[r].session_id = clients'[c].session_id
             /\ clients'[r].role # clients'[c].role
             /\ job'[c].message.type = "traveler_message"
                   => clients'[c].role = "traveler" /\ clients'[r].role = "assistant"
             /\ job'[c].message.type = "assistant_response"
                   => clients'[c].role = "assistant" /\ clients'[r].role = "traveler"
             /\ job'[c].message.type \in BroadcastTypes]_vars

\* a send is under way while another registered connection has the
\* recipient's role in another session
C2_Witness ==
    \E c \in Conns, x \in Registered :
        /\ pc[c] = "send"
        /\ x # job[c].target
        /\ clients[x].role = job[c].target_role
        /\ clients[x].session_id # job[c].session_id

\* the recipients that have matched from the start of c's broadcast to now and
\* whose connection is open
Steady(c) == {r \in job[c].stable : transport[r] = "open"}

\* C3: when several connections share the (session, role) pair a broadcast is
\* addressed to, every one of them that stays registered with that pair
\* (and open) for the whole broadcast has received it when process_message
\* ends, whatever the other handlers did meanwhile.
C3_FanOutReachesAll ==
    \A c \in Conns :
        (Finished(c) /\ Cardinality(job[c].matched) >= 2) =>
            \A r \in Steady(c) :
                Delivered(job[c], r, BroadcastTypes) # {}

\* a send of job j to a broadcast recipient failed
SendFailed(j) ==
    \E i \in 1..Len(j.log) : j.log[i].env.type \in BroadcastTypes /\ ~j.log[i].ok

\* C4: when the send to one recipient of a broadcast has failed, the other
\* matching recipients have received the broadcast and the acknowledgement
\* has been sent to the sender when process_message ends.
C4_SendFailureIsolated ==
    \A c \in Conns :
        (Finished(c) /\ SendFailed(job[c])) =>
            /\ \A r \in Steady(c) : Delivered(job[c], r, BroadcastTypes) # {}
            /\ Acks(job[c]) # {}
            /\ transport[c] = "open" => Delivered(job[c], c, AckTypes) # {}

\* C5: when process_message ends for a transcription of a traveler or an
\* assistant, exactly one acknowledgement send to the sender has been made
\* (transcription_sent for a traveler, response_sent for an assistant), and
\* it is the last send, after the broadcast.
C5_ExactlyOneAck ==
    \A c \in Conns :
        Finished(c) =>
            LET j == job[c] IN
            /\ Cardinality(Acks(j)) = 1
            /\ Acks(j) = {Len(j.log)}
            /\ j.log[Len(j.log)].to = c
            /\ j.log[Len(j.log)].env.type =
                  IF j.role = "traveler" THEN "transcription_sent"
                  ELSE "response_sent"

\* C6: a registered connection that has not sent set_role has role traveler,
\* language "es" and session "default" in its registry entry, and the
\* dispatcher resolves the same three values when it routes a transcription
\* of that connection.
C6_DefaultsBeforeSetRole ==
    \A c \in Registered :
        ~hasSetRole[c] =>
            /\ clients[c].role = "traveler"
            /\ clients[c].language = "es"
            /\ clients[c].session_id = "default"
            /\ (pc[c] \in {"send", "ack", "ret"} /\ job[c].data.type = "transcription")
                  => /\ job[c].role = "traveler"
                     /\ job[c].language = "es"
                     /\ job[c].session_id = "default"

\* the language process_message translated from or to for connection c
UsedLanguage(c) ==
    IF job[c].role = "traveler" THEN job[c].language ELSE job[c].traveler_language

\* C7: a transcription whose language (the traveler's stored language, or the
\* traveler_language of an assistant's message) is "en" is passed through:
\* translated is the text itself and the translator is not invoked.
C7_IdentityPassthrough ==
    \A c \in Conns :
        (Routing(c) /\ UsedLanguage(c) = "en") =>
            /\ job[c].translated = job[c].data.text
            /\ job[c].message.translated = job[c].data.text
            /\ ~job[c].invoked

\* C8: a transcription whose language is outside the supported set (and is
\* not "en", the passthrough language) does not
\* invoke the translator, its translated value is the "not supported"
\* sentinel, and when process_message ends the broadcast has reached the
\* recipients that stayed and the acknowledgement has been sent, both
\* carrying the sentinel.
C8_UnsupportedLanguage ==
    \A c \in Conns :
        (Routing(c) /\ UsedLanguage(c) \notin supported_languages \cup {"en"}) =>
            LET j == job[c]
                sentinel == NotSupported(UsedLanguage(c)) IN
            /\ ~j.invoked
            /\ j.translated = sentinel
            /\ j.message.translated = sentinel
            /\ Finished(c) =>
                 /\ \A r \in Steady(c) : Delivered(j, r, BroadcastTypes) # {}
                 /\ \E i \in Acks(j) :
                       j.log[i].env = [type |-> IF j.role = "traveler"
                                                 THEN "transcription_sent"
                                                 ELSE "response_sent",
                                       original |-> j.data.text,
                                       translated_for_assistant |-> sentinel]
                       \/ j.log[i].env = [type |-> "response_sent",
                                          original |-> j.data.text,
                                          translated_for_traveler |-> sentinel]

\* C9: a broadcast that starts after a connection of its (session, role)
\* pair was unregistered attempts no send to that connection and ends
\* without an error.
C9_UnregisteredExcluded ==
    \A c \in Conns :
        (Routing(c) /\ job[c].gone # {}) =>
            /\ job[c].target \notin job[c].gone
            /\ \A i \in 1..Len(job[c].log) : job[c].log[i].to \notin job[c].gone
            /\ job[c].error = "none"

TranslatorFailed(c) ==
    Routing(c) /\ job[c].outcome \in {"unavailable", "raise"}

\* C11: when the translator fails for a transcription (model unavailable or
\* inference error), translated is the descriptive error text in the
\* broadcast envelope, and when process_message ends the recipients that
\* stayed have received the broadcast and the acknowledgement has been sent
\* to the sender, carrying that error text.
C11_TranslatorFailureContained ==
    \A c \in Conns :
        TranslatorFailed(c) =>
            LET j == job[c] IN
            /\ j.translated = TranslationError
            /\ j.message.translated = TranslationError
            /\ Finished(c) =>
                 /\ \A r \in Steady(c) : Delivered(j, r, BroadcastTypes) # {}
                 /\ \E i \in Acks(j) :
                       /\ j.log[i].to = c
                       /\ j.log[i].env = Response(j)

\* connection c takes an inbound body of the given types in this step
Takes(c, types) ==
    /\ pc[c] = "recv"
    /\ pc'[c] # "recv"
    /\ job'[c].data.type \in types

\* no send is started or completed by connection c in this step
SendsNothing(c) ==
    /\ pc'[c] = "ret"
    /\ job'[c].log = <<>>
    /\ job'[c].target = 0

\* C12: the step that processes a set_role writes the supplied role,
\* session_id and language into the sender's entry, "traveler", "default" and
\* "es" standing in for a missing field; it leaves every other entry as it
\* was and sends nothing.
C12_SetRoleEffect ==
    [][\A c \in Conns :
          Takes(c, {"set_role"}) =>
             LET data == job'[c].data IN
             /\ clients'[c] # NotIn
             /\ clients'[c].role =
                   IF data.role = Missing THEN "traveler" ELSE data.role
             /\ clients'[c].session_id =
                   IF data.session_id = Missing THEN "default" ELSE data.session_id
             /\ clients'[c].language =
                   IF data.language = Missing THEN "es" ELSE data.language
             /\ clients'[c].translation_enabled = clients[c].translation_enabled
             /\ \A x \in Conns \ {c} : clients'[x] = clients[x]
             /\ order' = order
             /\ SendsNothing(c)
             /\ \A x \in Conns \ {c} : job'[x].log = job[x].log /\ pc'[x] = pc[x]]_vars

\* a set_role with a missing role and a supplied session and language has
\* been processed while another connection holds a different entry
C12_Witness ==
    \E c \in Registered, x \in Registered :
        /\ pc[c] = "ret"
        /\ job[c].data.type = "set_role"
        /\ job[c].data.role = Missing
        /\ job[c].data.session_id = "S"
        /\ job[c].data.language = "en"
        /\ clients[c] = [language |-> "en", translation_enabled |-> TRUE,
                         role |-> "traveler", session_id |-> "S"]
        /\ x # c
        /\ clients[x].role = "assistant"
        /\ clients[x].session_id = "default"

\* C13: the step that processes a start_recording writes the language of the
\* envelope ("es" when missing) into the sender's entry and nothing else: the
\* sender's role, session_id and translation_enabled and every other entry
\* are as before, and nothing is sent.
C13_StartRecordingEffect ==
    [][\A c \in Conns :
          Takes(c, {"start_recording"}) =>
             LET data == job'[c].data IN
             /\ clients'[c] # NotIn
             /\ clients'[c].language =
                   IF data.language = Missing THEN "es" ELSE data.language
             /\ clients'[c].role = clients[c].role
             /\ clients'[c].session_id = clients[c].session_id
             /\ clients'[c].translation_enabled = clients[c].translation_enabled
             /\ \A x \in Conns \ {c} : clients'[x] = clients[x]
             /\ order' = order
             /\ SendsNothing(c)
             /\ \A x \in Conns \ {c} : job'[x].log = job[x].log /\ pc'[x] = pc[x]]_vars

\* a start_recording naming another language has been processed for an
\* assistant of session S
C13_Witness ==
    \E c \in Registered :
        /\ pc[c] = "ret"
        /\ job[c].data.type = "start_recording"
        /\ job[c].data.language = "xx"
        /\ clients[c] = [language |-> "xx", translation_enabled |-> TRUE,
                         role |-> "assistant", session_id |-> "S"]

\* the handler of connection c has ended the processing of an envelope of
\* one of the given types
Ended(c, types) == pc[c] = "ret" /\ job[c].data.type \in types

\* the handler of connection c, having ended the processing of an envelope,
\* is still in its message loop: its next step is the wait for the next body
StaysInLoop(c) ==
    /\ c \in Registered
    /\ Idle => ENABLED Loop(c)
    /\ ~ENABLED Unregister(c)

\* the step with which the handler of c leaves the end of process_message
\* takes it to the wait for the next body, its entry untouched
BackToReceive(c) ==
    pc'[c] # pc[c] => /\ pc'[c] = "recv"
                      /\ job'[c] = NoJob
                      /\ clients'[c] = clients[c]
                      /\ clients[c] # NotIn

\* C14: the step that processes a stop_recording or an envelope of unknown
\* type leaves the registry as it was and sends nothing, no error is raised,
\* and afterwards the sender is registered and its handler goes back to wait
\* for its next body.
C14_NoEffectTypes ==
    /\ [](\A c \in Conns :
            Ended(c, {"stop_recording", "ping"}) =>
                StaysInLoop(c) /\ job[c].error = "none")
    /\ [][\A c \in Conns :
            /\ Takes(c, {"stop_recording", "ping"}) =>
                  /\ clients' = clients
                  /\ order' = order
                  /\ transport' = transport
                  /\ SendsNothing(c)
                  /\ \A x \in Conns \ {c} :
                        job'[x].log = job[x].log /\ pc'[x] = pc[x]
            /\ Ended(c, {"stop_recording", "ping"}) => BackToReceive(c)]_vars

\* an envelope of unknown type has been processed for a connection with a
\* non-default entry while another connection is registered as an assistant
C14_Witness ==
    \E c \in Registered, x \in Registered :
        /\ Ended(c, {"ping"})
        /\ clients[c].language = "en"
        /\ clients[c].session_id = "S"
        /\ x # c
        /\ clients[x].role = "assistant"

\* C15: the step that reads a body that is not valid JSON changes nothing in
\* the registry and sends nothing: the decoding error is logged, the sender
\* stays registered and its handler goes back to wait for its next body.
C15_MalformedDropped ==
    /\ [](\A c \in Conns :
            Ended(c, {"<not json>"}) =>
                StaysInLoop(c) /\ job[c].error = "JSONDecodeError")
    /\ [][\A c \in Conns :
            /\ Takes(c, {"<not json>"}) =>
                  /\ clients' = clients
                  /\ order' = order
                  /\ transport' = transport
                  /\ SendsNothing(c)
                  /\ \A x \in Conns \ {c} :
                        job'[x].log = job[x].log /\ pc'[x] = pc[x]
            /\ Ended(c, {"<not json>"}) => BackToReceive(c)]_vars

\* a malformed body has been dropped for an assistant of session S, and the
\* server can still read a body
C15_Witness ==
    \E c \in Registered :
        /\ Ended(c, {"<not json>"})
        /\ clients[c].role = "assistant"
        /\ clients[c].session_id = "S"
        /\ transport[c] = "open"
        /\ nmsgs < LangMsgs

\* the handler of connection x can take its next step now: end a send, go
\* back to its loop, or read a body that has arrived
CanStep(x) ==
    /\ pc[x] = "send" => ENABLED SendComplete(x)
    /\ pc[x] = "ack" => ENABLED AckComplete(x)
    /\ pc[x] = "ret" => ENABLED Loop(x)
    /\ (pc[x] = "recv" /\ transport[x] = "open" /\ nmsgs < MaxMsgs)
          => ENABLED (\E body \in RoutingBodies : Receive(x, body, MaxMsgs))

\* C19: while a translator call made for a transcription of one session is
\* in progress, the handlers of the connections of other sessions can still
\* take their steps: read and process a body, go on with a broadcast, send
\* an acknowledgement.
C19_TranslatorCallDoesNotBlock ==
    \A c \in Conns, x \in Registered :
        (pc[c] = "translate" /\ clients[x].session_id # job[c].session_id)
            => CanStep(x)

\* the handler of connection c is processing an envelope, or has just ended
\* its processing
Processing(c) == pc[c] \in {"translate", "send", "ack", "ret"}

\* C16: on one connection the bodies are read in the order of their arrival
\* and one at a time: a body is read only when nothing of the previous one
\* is pending (no translator call, no broadcast send, no acknowledgement
\* send), and it is the oldest unread body; so a transcription read right
\* after a set_role is processed with the role, session and language that
\* set_role wrote.
C16_InOrderOneAtATime ==
    /\ [](\A c \in Conns :
            /\ Processing(c) =>
                  nread[c] >= 1 /\ job[c].data = arrived[c][nread[c]]
            /\ (/\ Processing(c)
                /\ job[c].data.type = "transcription"
                /\ nread[c] >= 2
                /\ arrived[c][nread[c] - 1].type = "set_role") =>
                  LET set == arrived[c][nread[c] - 1] IN
                  /\ job[c].role =
                        IF set.role = Missing THEN "traveler" ELSE set.role
                  /\ job[c].session_id =
                        IF set.session_id = Missing THEN "default"
                        ELSE set.session_id
                  /\ job[c].language =
                        IF set.language = Missing THEN "es" ELSE set.language)
    /\ [][\A c \in Conns :
            nread'[c] # nread[c] =>
                /\ nread'[c] = nread[c] + 1
                /\ nread'[c] <= Len(arrived[c])
                /\ pc[c] = "recv"
                /\ job[c] = NoJob
                /\ job'[c].data = arrived[c][nread'[c]]]_vars

\* an assistant's transcription, read right after its set_role, is being
\* broadcast while a later body of the same connection waits in the queue
C16_Witness ==
    \E c \in Registered :
        /\ pc[c] = "send"
        /\ nread[c] = 2
        /\ arrived[c][1].type = "set_role"
        /\ arrived[c][1].role = "assistant"
        /\ arrived[c][1].language = "xx"
        /\ arrived[c][2].type = "transcription"
        /\ Len(arrived[c]) = 3
        /\ arrived[c][3].type = "set_role"

\* C17: once the transport of a connection is closed, whatever its handler
\* is doing at that moment (waiting for a body, inside a translator call, a
\* broadcast send or an acknowledgement send, or logging an error), its
\* entry is eventually deleted from the registry, and a deleted entry of a
\* closed connection is never put back.
C17_ClosedEventuallyRemoved ==
    /\ \A c \in 1..LiveConns :
          (transport[c] = "closed") ~> (clients[c] = NotIn)
    /\ [][\A c \in 1..LiveConns :
            (transport[c] = "closed" /\ clients[c] = NotIn)
                => clients'[c] = NotIn]_vars

\* the entry of an assistant that had joined session S has been deleted after
\* its transport closed, while the other connection stays registered
C17_Witness ==
    \E c \in 1..LiveConns, x \in Registered :
        /\ transport[c] = "closed"
        /\ pc[c] = "done"
        /\ clients[c] = NotIn
        /\ left[c].role = "assistant"
        /\ left[c].session_id = "S"
        /\ x # c

\* the set_role bodies the handler of connection x has processed
SetRolesRead(x) == {i \in 1..nread[x] : arrived[x][i].type = "set_role"}

\* the entry of x holds the role, session and language of one and the same
\* set_role, the last one its handler processed; or, before any set_role,
\* the three values register_client stored
WholeEntry(x) ==
    IF SetRolesRead(x) = {}
    THEN clients[x] = [language |-> "es", translation_enabled |-> TRUE,
                       role |-> "traveler", session_id |-> "<None>"]
    ELSE LET last == CHOOSE i \in SetRolesRead(x) :
                        \A k \in SetRolesRead(x) : k <= i
             set == arrived[x][last]
         IN clients[x] =
              [language |-> IF set.language = Missing THEN "es" ELSE set.language,
               translation_enabled |-> TRUE,
               role |-> IF set.role = Missing THEN "traveler" ELSE set.role,
               session_id |-> IF set.session_id = Missing THEN "default"
                              ELSE set.session_id]

\* C18: in every state in which a handler can run, and so whenever a
\* broadcast tests an entry, each registry entry carries the three values of
\* one set_role (or the three initial ones): never the role of one set_role
\* with the session or the language of an earlier one.
C18_NoHalfUpdatedEntry ==
    \A x \in Registered : WholeEntry(x)

\* a broadcast is suspended in the send to a connection whose handler has
\* meanwhile processed a second set_role, which changed its language
C18_Witness ==
    \E c \in Registered, x \in Registered :
        /\ pc[c] = "send"
        /\ job[c].target = x
        /\ job[c].disturbed
        /\ Cardinality(SetRolesRead(x)) = 2
        /\ arrived[x][1].language # arrived[x][2].language
        /\ WholeEntry(x)

\* an error has occurred in the processing of the envelope of connection c:
\* an exception left process_message or json.loads, the translator failed
\* with the error text, or a send of the broadcast or of the acknowledgement
\* failed
Failed(c) ==
    \/ job[c].error # "none"
    \/ job[c].translated = TranslationError
    \/ \E i \in 1..Len(job[c].log) : ~job[c].log[i].ok

\* the handler of connection c takes a step
Steps(c) == pc'[c] # pc[c] \/ job'[c].log # job[c].log

\* C20: after an error in the processing of one envelope (translation error,
\* failed send, RuntimeError of the broadcast loop, unbound response, body
\* that is not JSON) the sender is still registered and its handler is still
\* in its message loop; the steps its handler takes from there change no
\* registry entry, and the last of them takes it back to the wait for its
\* next body with nothing left of the failed envelope.
C20_NoFailureIsFatal ==
    /\ [](\A c \in Conns :
            Failed(c) =>
                /\ c \in Registered
                /\ Processing(c)
                /\ ~ENABLED Unregister(c)
                /\ (pc[c] = "ret" /\ Idle) => ENABLED Loop(c))
    /\ [][\A c \in Conns :
            (Failed(c) /\ Steps(c)) =>
                /\ clients' = clients
                /\ order' = order
                /\ pc[c] = "ret" => BackToReceive(c)]_vars

\* the broadcast loop has raised RuntimeError after a failed send of a
\* "Translation error" text, and the sender's connection is open
C20_Witness ==
    \E c \in Registered :
        /\ pc[c] = "ret"
        /\ job[c].error = "RuntimeError"
        /\ job[c].translated = TranslationError
        /\ \E i \in 1..Len(job[c].log) : ~job[c].log[i].ok
        /\ transport[c] = "open"

\* C21: whenever a broadcast send starts, its recipient is registered with
\* the role traveler or assistant, which a set_role of its own gave it or
\* left it: a connection that has sent no set_role, and a connection whose
\* entry holds any other role that set_role accepted, is the destination of
\* no broadcast, whatever its session.
C21_OtherRolesNeverDestination ==
    [][\A c \in Conns :
          SendStarts(c) =>
             /\ clients'[job'[c].target] # NotIn
             /\ clients'[job'[c].target].role \in {"traveler", "assistant"}
             /\ hasSetRole'[job'[c].target]]_vars

\* the broadcast of a transcription has run to its end, undisturbed, past
\* the entry of a connection of the sender's session whose role is neither
\* traveler nor assistant, and nothing was sent to that connection
C21_Witness ==
    \E c \in Registered, x \in Registered :
        /\ Finished(c)
        /\ ~job[c].disturbed
        /\ job[c].error = "none"
        /\ x # c
        /\ clients[x].role = "other"
        /\ clients[x].session_id = job[c].session_id
        /\ \A i \in 1..Len(job[c].log) : job[c].log[i].to # x

\* the role stored for connection c is neither traveler nor assistant
OtherRole(c) == c \in Registered /\ clients[c].role \notin {"traveler", "assistant"}

\* the envelope whose processing connection c has ended is a transcription
\* that was resolved to a role that is neither traveler nor assistant
EndedUnrouted(c) ==
    /\ Ended(c, {"transcription"})
    /\ job[c].role \notin {"traveler", "assistant"}

\* C22: the step that processes a transcription of a sender whose stored role
\* is neither traveler nor assistant calls no translator and starts no send,
\* neither broadcast nor acknowledgement, and leaves the registry as it was;
\* the unbound response is logged, the sender stays registered and its
\* handler goes back to wait for its next body.
C22_UnknownRoleTranscription ==
    /\ [](\A c \in Conns :
            EndedUnrouted(c) =>
                /\ StaysInLoop(c)
                /\ ~job[c].invoked
                /\ job[c].log = <<>>
                /\ job[c].error = "UnboundLocalError")
    /\ [][\A c \in Conns :
            /\ (Takes(c, {"transcription"}) /\ OtherRole(c)) =>
                  /\ clients' = clients
                  /\ order' = order
                  /\ transport' = transport
                  /\ SendsNothing(c)
                  /\ ~job'[c].invoked
                  /\ job'[c].role = clients[c].role
                  /\ \A x \in Conns \ {c} :
                        job'[x].log = job[x].log /\ pc'[x] = pc[x]
            /\ EndedUnrouted(c) => BackToReceive(c)]_vars

\* a transcription of a sender with the role "other" has been dropped while
\* a traveler of the sender's session is registered and open
C22_Witness ==
    \E c \in Registered, x \in Registered :
        /\ EndedUnrouted(c)
        /\ clients[c].role = "other"
        /\ x # c
        /\ clients[x].role = "traveler"
        /\ clients[x].session_id = clients[c].session_id
        /\ transport[x] = "open"

\* C23: a connection has its registry entry for as long as its handler reads
\* and processes bodies: the entry is there before the first body is read,
\* at every read and during all the processing, so that the defaults
\* process_message keeps for an absent entry are never used; the entry is
\* deleted only from the wait of the message loop, with nothing pending, and
\* after that the handler reads nothing more.
C23_ProcessedOnlyWhileRegistered ==
    /\ [](\A c \in Conns :
            /\ Processing(c) =>
                  /\ c \in Registered
                  /\ job[c].data.type = "transcription" =>
                        /\ job[c].role = clients[c].role
                        /\ job[c].session_id = clients[c].session_id
                        /\ job[c].language = clients[c].language
            /\ pc[c] = "recv" => c \in Registered
            /\ pc[c] \in {"init", "done"} =>
                  c \notin Registered /\ job[c] = NoJob
            /\ pc[c] = "init" => nread[c] = 0 /\ arrived[c] = <<>>)
    /\ [][\A c \in Conns :
            /\ nread'[c] # nread[c] =>
                  clients[c] # NotIn /\ clients'[c] # NotIn
            /\ (clients[c] # NotIn /\ clients'[c] = NotIn) =>
                  /\ pc[c] = "recv"
                  /\ job[c] = NoJob
                  /\ pc'[c] = "done"
                  /\ nread'[c] = nread[c]
            /\ pc[c] = "done" =>
                  pc'[c] = "done" /\ nread'[c] = nread[c]]_vars

\* the transport of a connection has closed while its handler is suspended
\* in a broadcast send with a later body unread: the entry is still there
C23_Witness ==
    \E c \in Registered :
        /\ transport[c] = "closed"
        /\ pc[c] = "send"
        /\ nread[c] = 2
        /\ Len(arrived[c]) = 3

====
